---- MODULE Spec2Model ----
(***************************************************************************)
(* State-machine model of the terminal dashboard of sys-stats (src/cli.py):*)
(* the render loop of main(), the keyboard_listener() thread, the two      *)
(* module-level locks, the two threading.Event signals and the shared      *)
(* module-level state.                                                     *)
(*                                                                         *)
(* Time: the wait phase compares t = time.time() - start_time with         *)
(* sleep_time.  elapsed records where t stands: "zero" (the wait has just  *)
(* started), "part" (0 < t < sleep_time) or "full" (t >= sleep_time).  The *)
(* number of 100 ms polls that make up an interval is abstracted away: a   *)
(* sleep taken in "part" ends in "part" or in "full".                      *)
(*                                                                         *)
(* Display: layout is what the loop last put on the Live display, either   *)
(* the help panel (layout.update(help_panel)) or the dashboard panels      *)
(* (build_layout_content), as the comments of lines 405 and 419 state.     *)
(*                                                                         *)
(* The /stats endpoint of the server (src/app.py, get_stats) is modelled   *)
(* apart, as one request handled step by step: StatsSpec.                  *)
(***************************************************************************)
EXTENDS Integers, FiniteSets, Sequences, TLC

\* ------------------------------------------------------------------ bounds
\* Number of key presses the listener reads in one run.
MaxKeys == 2
\* Largest number of processes one enumeration returns.
MaxProcs == 3

\* ------------------------------------------------------- program constants
MIN_INTERVAL == 1
MAX_INTERVAL == 60
DEFAULT_INTERVAL == 5

\* Values of --interval that argparse (type=int) accepts and the runs start from.
ArgIntervals == {0, 1, 60, 61}

\* Keys readchar.readkey() can return; "x" stands for every unmapped key.
Keys == {"q", "Q", "r", "R", "h", "H", "p", "P", "-", "+", "x"}

\* Variant of Lower: the key is compared as typed.
Lower_as_typed(k) == k

\* key.lower()
Lower(k) ==
    CASE k = "Q" -> "q"
      [] k = "R" -> "r"
      [] k = "H" -> "h"
      [] k = "P" -> "p"
      [] OTHER -> k

\* Python's None.
None == "None"

\* JSON bodies a 200 response can carry: two well-formed snapshots, the empty
\* object {} and a body that is valid JSON but no snapshot (e.g. [1]).
GoodPayloads == {"A", "B"}
EmptyPayload == "Empty"
MalformedPayload == "Malformed"
Payloads == GoodPayloads \cup {EmptyPayload, MalformedPayload}

\* Outcomes of requests.get + raise_for_status + json that raise a
\* RequestException: connection failure, non-2xx status, undecodable body.
FailureKinds == {"NetworkError", "HttpError", "ParseError"}
Responses == FailureKinds \cup Payloads

\* fetch_stats: the parsed body, or None when a RequestException was caught.
fetch_stats(response) ==
    IF response \in FailureKinds THEN None ELSE response

\* Variant of Truthy: the result of the fetch is stored without the test.
Truthy_untested(s) == TRUE

\* Python truth value of what fetch_stats returned (`if stats:`): None and {}
\* are false.
Truthy(s) == s \notin {None, EmptyPayload}

\* build_summary raises (AttributeError / TypeError / ValueError) on a body
\* that is not a mapping with numeric fields.
RenderRaises(data) == data = MalformedPayload

HelpPanel == [view |-> "help"]
EmptyLayout == [view |-> "empty"]
\* The dashboard panels: the data they were built from, the interval of the
\* summary's subtitle and whether the summary shows PAUSÉ.
Dashboard(data, interval, status) ==
    [view |-> "dash", data |-> data, interval |-> interval, status |-> status]

VARIABLES
    args_interval,          \* args.interval
    is_paused, show_help_flag, refresh_interval, latest_stats,
    state_lock, stats_lock, \* "free" or the thread holding it
    exit_event, rebuild_layout_event,
    layout,                 \* what the Live display shows
    main_pc, current_interval, paused, help_flag, stats, elapsed, render_site,
    listener_pc, key,
    keys_read,              \* number of keys read so far (bounded by MaxKeys)
    cycle_fetch,            \* history: this cycle's fetch: none/inflight/failed/ok
    cycle_latest,           \* history: latest_stats when this cycle read the state
    r_stage,                \* history: progress of the last r, p, h or q press
    p_prev                  \* history: "paused"/"running" before the latest 'p', or "none"

\* One request to /stats (src/app.py)
VARIABLES
    request_args,           \* request.args: the query parameters
    has_gpu,                \* len(GPUtil.getGPUs()) > 0
    limit,                  \* the parsed limit (0 until it is assigned)
    enum_cpu, enum_memory, enum_gpu,   \* history: what each enumeration returned
    top_cpu, top_memory, top_gpu_processes,
    app_pc

app_vars == <<request_args, has_gpu, limit, enum_cpu, enum_memory, enum_gpu,
              top_cpu, top_memory, top_gpu_processes, app_pc>>

vars == <<app_vars, args_interval, is_paused, show_help_flag, refresh_interval, latest_stats,
          state_lock, stats_lock, exit_event, rebuild_layout_event, layout,
          main_pc, current_interval, paused, help_flag, stats, elapsed, render_site,
          listener_pc, key, keys_read, cycle_fetch, cycle_latest, r_stage,
          p_prev>>

shared_vars == <<is_paused, show_help_flag, refresh_interval, latest_stats,
                 state_lock, stats_lock, exit_event, rebuild_layout_event>>
main_locals == <<current_interval, paused, help_flag, stats, elapsed, render_site>>
history_vars == <<cycle_fetch, cycle_latest, r_stage, p_prev>>

WaitPcs == {"wait_test", "wait_sleep"}
Terminal == {"done", "crashed"}
\* The listener is a daemon thread: it runs only while main() does.
ProcessAlive == main_pc \notin Terminal

\* No request is being handled.
AppIdle ==
    /\ request_args = << >>
    /\ has_gpu = FALSE
    /\ limit = 0
    /\ enum_cpu = << >> /\ enum_memory = << >> /\ enum_gpu = << >>
    /\ top_cpu = << >> /\ top_memory = << >> /\ top_gpu_processes = << >>
    /\ app_pc = "idle"

\* The dashboard before main() runs.
DashboardInit ==
    /\ args_interval \in ArgIntervals
    /\ is_paused = FALSE
    /\ show_help_flag = FALSE
    /\ refresh_interval = DEFAULT_INTERVAL
    /\ latest_stats = None
    /\ state_lock = "free"
    /\ stats_lock = "free"
    /\ exit_event = FALSE
    /\ rebuild_layout_event = FALSE
    /\ layout = EmptyLayout
    /\ main_pc = "start"
    /\ current_interval = DEFAULT_INTERVAL
    /\ paused = FALSE
    /\ help_flag = FALSE
    /\ stats = None
    /\ elapsed = "zero"
    /\ render_site = "none"
    /\ listener_pc = "not_started"
    /\ key = ""
    /\ keys_read = 0
    /\ cycle_fetch = "none"
    /\ cycle_latest = None
    /\ r_stage = "none"
    /\ p_prev = "none"

Init == DashboardInit /\ AppIdle

\* ------------------------------------------------------------ render loop

\* main, lines 382-395: parse the arguments, store --interval under the state
\* lock, create the layout and start the listener thread.
M_start ==
    /\ main_pc = "start"
    /\ state_lock = "free"
    /\ refresh_interval' = args_interval
    /\ listener_pc' = "loop_test"
    /\ main_pc' = "loop_test"
    /\ UNCHANGED <<app_vars, args_interval, is_paused, show_help_flag, latest_stats, state_lock,
                   stats_lock, exit_event, rebuild_layout_event, layout, main_locals,
                   key, keys_read, history_vars>>

\* Variant of M_loop_test: the loop does not test exit_event.
M_loop_test_ignoring_exit ==
    /\ main_pc = "loop_test"
    /\ main_pc' = "lock_state"
    /\ UNCHANGED <<app_vars, args_interval, shared_vars, layout, main_locals, listener_pc, key,
                   keys_read, history_vars>>

\* line 398: while not exit_event.is_set()
M_loop_test ==
    /\ main_pc = "loop_test"
    /\ main_pc' = IF exit_event THEN "done" ELSE "lock_state"
    /\ UNCHANGED <<app_vars, args_interval, shared_vars, layout, main_locals, listener_pc, key,
                   keys_read, history_vars>>

\* Variant of M_lock_state: the three reads are made without the lock.
M_lock_state_unlocked ==
    /\ main_pc = "lock_state"
    /\ main_pc' = "read_interval"
    /\ UNCHANGED <<app_vars, args_interval, shared_vars, layout, main_locals, listener_pc, key,
                   keys_read, history_vars>>

\* line 399: with state_lock (blocks while the listener holds it)
M_lock_state ==
    /\ main_pc = "lock_state"
    /\ state_lock = "free"
    /\ state_lock' = "main"
    /\ main_pc' = "read_interval"
    /\ UNCHANGED <<app_vars, args_interval, is_paused, show_help_flag, refresh_interval,
                   latest_stats, stats_lock, exit_event, rebuild_layout_event, layout,
                   main_locals, listener_pc, key, keys_read, history_vars>>

\* line 400: current_interval = refresh_interval
M_read_interval ==
    /\ main_pc = "read_interval"
    /\ current_interval' = refresh_interval
    /\ main_pc' = "read_paused"
    /\ UNCHANGED <<app_vars, args_interval, shared_vars, layout, paused, help_flag, stats,
                   elapsed, render_site, listener_pc, key, keys_read, history_vars>>

\* line 401: paused = is_paused
M_read_paused ==
    /\ main_pc = "read_paused"
    /\ paused' = is_paused
    /\ main_pc' = "read_help"
    /\ UNCHANGED <<app_vars, args_interval, shared_vars, layout, current_interval, help_flag,
                   stats, elapsed, render_site, listener_pc, key, keys_read,
                   history_vars>>

\* Variant of M_read_help: the lock is kept after the reads.
M_read_help_keeping_lock ==
    /\ main_pc = "read_help"
    /\ help_flag' = show_help_flag
    /\ main_pc' = "dispatch"
    /\ cycle_fetch' = "none"
    /\ cycle_latest' = latest_stats
    /\ UNCHANGED <<app_vars, args_interval, shared_vars, layout, current_interval, paused, stats,
                   elapsed, render_site, listener_pc, key, keys_read, r_stage, p_prev>>

\* line 402: help_flag = show_help_flag, then the with block releases the lock.
M_read_help ==
    /\ main_pc = "read_help"
    /\ help_flag' = show_help_flag
    /\ state_lock' = "free"
    /\ main_pc' = "dispatch"
    /\ cycle_fetch' = "none"
    /\ cycle_latest' = latest_stats
    /\ UNCHANGED <<app_vars, args_interval, is_paused, show_help_flag, refresh_interval,
                   latest_stats, stats_lock, exit_event, rebuild_layout_event, layout,
                   current_interval, paused, stats, elapsed, render_site, listener_pc,
                   key, keys_read, r_stage,
                   p_prev>>

\* Variant of CycleBranch: the pause flag is tested before the help flag.
CycleBranch_pause_first(h, p) ==
    IF p THEN "paused" ELSE IF h THEN "help" ELSE "fetch"

\* Variant of CycleBranch: a paused cycle fetches unless help is shown.
CycleBranch_fetching_when_paused(h, p) ==
    IF h THEN "help" ELSE "fetch"

\* Variant of CycleBranch: the pause flag is not consulted.
CycleBranch_ignoring_pause(h, p) ==
    IF h THEN "help" ELSE "fetch"

\* lines 404-409: which branch the cycle takes from the values it read.
CycleBranch(h, p) ==
    IF h THEN "help" ELSE IF ~p THEN "fetch" ELSE "paused"

\* lines 404-421: the help overlay, the fetch (issued here, in flight while
\* main_pc = "fetching") or the paused re-render from latest_stats.
M_dispatch ==
    /\ main_pc = "dispatch"
    /\ LET branch == CycleBranch(help_flag, paused) IN
       /\ layout' = IF branch = "help" THEN HelpPanel ELSE layout
       /\ main_pc' = CASE branch = "help" -> "rebuild_test"
                       [] branch = "fetch" -> "fetching"
                       [] OTHER -> IF Truthy(latest_stats) THEN "render_begin"
                                   ELSE "rebuild_test"
       /\ render_site' = IF branch = "paused" /\ Truthy(latest_stats)
                         THEN "paused" ELSE render_site
       /\ cycle_fetch' = IF branch = "fetch" THEN "inflight" ELSE cycle_fetch
       /\ r_stage' = CASE r_stage = "pending" /\ branch = "fetch" -> "fetched"
                       [] r_stage = "k_pending" ->
                            IF branch = "fetch" THEN "k_fetched" ELSE "none"
                       [] r_stage = "q_raised" /\ branch = "fetch" -> "q_fetched"
                       [] OTHER -> r_stage
    /\ UNCHANGED <<app_vars, args_interval, shared_vars, current_interval, paused, help_flag,
                   stats, elapsed, listener_pc, key, keys_read, cycle_latest,
                   p_prev>>

\* lines 411-412: fetch_stats returns; `if stats:` decides whether to store.
M_fetch_return ==
    /\ main_pc = "fetching"
    /\ \E response \in Responses :
         /\ stats' = fetch_stats(response)
         /\ main_pc' = IF Truthy(fetch_stats(response)) THEN "store_lock"
                       ELSE "rebuild_test"
         /\ cycle_fetch' = IF fetch_stats(response) = None THEN "failed" ELSE "ok"
    /\ UNCHANGED <<app_vars, args_interval, shared_vars, layout, current_interval, paused,
                   help_flag, elapsed, render_site, listener_pc, key, keys_read,
                   cycle_latest, r_stage,
                   p_prev>>

\* line 413: with stats_lock
M_store_lock ==
    /\ main_pc = "store_lock"
    /\ stats_lock = "free"
    /\ stats_lock' = "main"
    /\ main_pc' = "store_write"
    /\ UNCHANGED <<app_vars, args_interval, is_paused, show_help_flag, refresh_interval,
                   latest_stats, state_lock, exit_event, rebuild_layout_event, layout,
                   main_locals, listener_pc, key, keys_read, history_vars>>

\* Variant of M_store_write: stats_lock is kept after the assignment.
M_store_write_keeping_lock ==
    /\ main_pc = "store_write"
    /\ latest_stats' = stats
    /\ render_site' = "fetch"
    /\ main_pc' = "render_begin"
    /\ r_stage' = IF r_stage \in {"q_raised", "q_fetched"} THEN "q_stored"
                  ELSE r_stage
    /\ UNCHANGED <<app_vars, args_interval, is_paused, show_help_flag, refresh_interval,
                   state_lock, stats_lock, exit_event, rebuild_layout_event, layout,
                   current_interval, paused, help_flag, stats, elapsed, listener_pc,
                   key, keys_read, cycle_fetch, cycle_latest, p_prev>>

\* lines 414-417: latest_stats = stats, release, call build_layout_content.
M_store_write ==
    /\ main_pc = "store_write"
    /\ latest_stats' = stats
    /\ stats_lock' = "free"
    /\ render_site' = "fetch"
    /\ main_pc' = "render_begin"
    /\ r_stage' = IF r_stage \in {"q_raised", "q_fetched"} THEN "q_stored"
                  ELSE r_stage
    /\ UNCHANGED <<app_vars, args_interval, is_paused, show_help_flag, refresh_interval,
                   state_lock, exit_event, rebuild_layout_event, layout,
                   current_interval, paused, help_flag, stats, elapsed, listener_pc,
                   key, keys_read, cycle_fetch, cycle_latest, p_prev>>

\* build_layout_content, lines 306-312, and build_summary, lines 120-160, on
\* latest_stats: the header and the figures of the summary are built, which
\* raises on a malformed body.
M_render_begin ==
    /\ main_pc = "render_begin"
    /\ main_pc' = IF RenderRaises(latest_stats) THEN "render_raised"
                  ELSE "render_status"
    /\ UNCHANGED <<app_vars, args_interval, shared_vars, layout, main_locals, listener_pc, key,
                   keys_read, history_vars>>

\* lines 397-442: neither the loop nor the Live block has an except clause, so
\* an exception raised by a render leaves main() and ends the process.
M_unwind ==
    /\ main_pc = "render_raised"
    /\ main_pc' = "crashed"
    /\ UNCHANGED <<app_vars, args_interval, shared_vars, layout, main_locals, listener_pc, key,
                   keys_read, history_vars>>

\* build_summary, line 163: with state_lock
M_render_lock ==
    /\ main_pc = "render_status"
    /\ state_lock = "free"
    /\ state_lock' = "main"
    /\ main_pc' = "render_finish"
    /\ UNCHANGED <<app_vars, args_interval, is_paused, show_help_flag, refresh_interval,
                   latest_stats, stats_lock, exit_event, rebuild_layout_event, layout,
                   main_locals, listener_pc, key, keys_read, history_vars>>

\* Where a build_layout_content call returns to.
AfterRender(site) ==
    IF site = "rebuild" THEN "rebuild_clear" ELSE "rebuild_test"

\* build_summary, lines 164-174, and build_layout_content, lines 313-325: the
\* status is read from is_paused under the lock, the lock is released and the
\* panels are put in the layout.
M_render_finish ==
    /\ main_pc = "render_finish"
    /\ layout' = Dashboard(latest_stats, current_interval, is_paused)
    /\ state_lock' = "free"
    /\ main_pc' = AfterRender(render_site)
    /\ render_site' = "none"
    /\ UNCHANGED <<app_vars, args_interval, is_paused, show_help_flag, refresh_interval,
                   latest_stats, stats_lock, exit_event, rebuild_layout_event,
                   current_interval, paused, help_flag, stats, elapsed, listener_pc,
                   key, keys_read, history_vars>>

\* line 424: if rebuild_layout_event.is_set()
M_rebuild_test ==
    /\ main_pc = "rebuild_test"
    /\ main_pc' = IF rebuild_layout_event THEN "rebuild_render" ELSE "wait_start"
    /\ UNCHANGED <<app_vars, args_interval, shared_vars, layout, main_locals, listener_pc, key,
                   keys_read, history_vars>>

\* lines 425-431: re-render from the values read at the start of the cycle.
M_rebuild_render ==
    /\ main_pc = "rebuild_render"
    /\ layout' = IF help_flag THEN HelpPanel ELSE layout
    /\ main_pc' = IF ~help_flag /\ Truthy(latest_stats) THEN "render_begin"
                  ELSE "rebuild_clear"
    /\ render_site' = IF ~help_flag /\ Truthy(latest_stats) THEN "rebuild"
                      ELSE render_site
    /\ UNCHANGED <<app_vars, args_interval, shared_vars, current_interval, paused, help_flag,
                   stats, elapsed, listener_pc, key, keys_read, history_vars>>

\* Variant of M_rebuild_clear: the event is left set.
M_rebuild_clear_skipped ==
    /\ main_pc = "rebuild_clear"
    /\ main_pc' = "wait_start"
    /\ UNCHANGED <<app_vars, args_interval, shared_vars, layout, main_locals, listener_pc, key,
                   keys_read, history_vars>>

\* line 432: rebuild_layout_event.clear()
M_rebuild_clear ==
    /\ main_pc = "rebuild_clear"
    /\ rebuild_layout_event' = FALSE
    /\ main_pc' = "wait_start"
    /\ UNCHANGED <<app_vars, args_interval, is_paused, show_help_flag, refresh_interval,
                   latest_stats, state_lock, stats_lock, exit_event, layout,
                   main_locals, listener_pc, key, keys_read, history_vars>>

\* lines 435-436: sleep_time = current_interval; start_time = time.time()
M_wait_start ==
    /\ main_pc = "wait_start"
    /\ elapsed' = IF 0 < current_interval THEN "zero" ELSE "full"
    /\ main_pc' = "wait_test"
    /\ UNCHANGED <<app_vars, args_interval, shared_vars, layout, current_interval, paused,
                   help_flag, stats, render_site, listener_pc, key, keys_read,
                   history_vars>>

\* line 437: (time.time() - start_time) < sleep_time
TimeLeft(e) == e # "full"

\* Variant of WaitBreaks: the poll looks at the rebuild event only.
WaitBreaks_rebuild_only(ex, rb) == rb

\* line 438: the poll's break condition.
WaitBreaks(ex, rb) == ex \/ rb

\* lines 437-439: the wait is over when the interval has elapsed or when the
\* poll sees one of the two events; otherwise the loop sleeps one quantum.
M_wait_test ==
    /\ main_pc = "wait_test"
    /\ main_pc' = IF TimeLeft(elapsed)
                     /\ ~WaitBreaks(exit_event, rebuild_layout_event)
                  THEN "wait_sleep" ELSE "loop_test"
    /\ r_stage' = IF r_stage \in {"fetched", "k_fetched"} THEN "none" ELSE r_stage
    /\ UNCHANGED <<app_vars, args_interval, shared_vars, layout, main_locals, listener_pc, key,
                   keys_read, cycle_fetch, cycle_latest,
                   p_prev>>

\* line 440: time.sleep(0.1)
M_wait_sleep ==
    /\ main_pc = "wait_sleep"
    /\ elapsed' \in (IF elapsed = "zero" THEN {"part"} ELSE {"part", "full"})
    /\ main_pc' = "wait_test"
    /\ UNCHANGED <<app_vars, args_interval, shared_vars, layout, current_interval, paused,
                   help_flag, stats, render_site, listener_pc, key, keys_read,
                   history_vars>>

MainStep ==
    \/ M_start \/ M_loop_test \/ M_lock_state \/ M_read_interval \/ M_read_paused
    \/ M_read_help \/ M_dispatch \/ M_fetch_return \/ M_store_lock \/ M_store_write
    \/ M_render_begin \/ M_unwind \/ M_render_lock \/ M_render_finish \/ M_rebuild_test
    \/ M_rebuild_render \/ M_rebuild_clear \/ M_wait_start \/ M_wait_test
    \/ M_wait_sleep

\* -------------------------------------------------------- keyboard listener

\* Variant of L_loop_test: the listener does not test exit_event.
L_loop_test_ignoring_exit ==
    /\ ProcessAlive
    /\ listener_pc = "loop_test"
    /\ listener_pc' = "readkey"
    /\ UNCHANGED <<app_vars, args_interval, shared_vars, layout, main_pc, main_locals, key,
                   keys_read, history_vars>>

\* line 355: while not exit_event.is_set()
L_loop_test ==
    /\ ProcessAlive
    /\ listener_pc = "loop_test"
    /\ listener_pc' = IF exit_event THEN "stopped" ELSE "readkey"
    /\ UNCHANGED <<app_vars, args_interval, shared_vars, layout, main_pc, main_locals, key,
                   keys_read, history_vars>>

\* line 356: key = readchar.readkey() (blocks until a key is pressed), in a
\* run during which at most `budget` keys are pressed.
ReadKey(budget) ==
    /\ ProcessAlive
    /\ listener_pc = "readkey"
    /\ keys_read < budget
    /\ \E k \in Keys : key' = k
    /\ keys_read' = keys_read + 1
    /\ listener_pc' = "lock"
    /\ UNCHANGED <<app_vars, args_interval, shared_vars, layout, main_pc, main_locals,
                   history_vars>>

L_readkey == ReadKey(MaxKeys)

\* The same read in a run one key longer.
L_readkey_long == ReadKey(MaxKeys + 1)

\* line 357: with state_lock (blocks while the render loop holds it)
L_lock ==
    /\ ProcessAlive
    /\ listener_pc = "lock"
    /\ state_lock = "free"
    /\ state_lock' = "listener"
    /\ listener_pc' = "handle"
    /\ UNCHANGED <<app_vars, args_interval, is_paused, show_help_flag, refresh_interval,
                   latest_stats, stats_lock, exit_event, rebuild_layout_event, layout,
                   main_pc, main_locals, key, keys_read, history_vars>>

\* lines 358-359: q sets exit_event.
L_quit ==
    /\ ProcessAlive
    /\ listener_pc = "handle"
    /\ Lower(key) = "q"
    /\ exit_event' = TRUE
    /\ listener_pc' = "release"
    /\ r_stage' = "q_raised"
    /\ UNCHANGED <<app_vars, args_interval, is_paused, show_help_flag, refresh_interval,
                   latest_stats, state_lock, stats_lock, rebuild_layout_event, layout,
                   main_pc, main_locals, key, keys_read, cycle_fetch, cycle_latest,
                   p_prev>>

\* Variant of L_refresh: r also drops the stored snapshot.
L_refresh_dropping_latest ==
    /\ ProcessAlive
    /\ listener_pc = "handle"
    /\ Lower(key) = "r"
    /\ rebuild_layout_event' = TRUE
    /\ latest_stats' = None
    /\ listener_pc' = "release"
    /\ r_stage' = "none"
    /\ UNCHANGED <<app_vars, args_interval, is_paused, show_help_flag, refresh_interval,
                   state_lock, stats_lock, exit_event, layout,
                   main_pc, main_locals, key, keys_read, cycle_fetch, cycle_latest,
                   p_prev>>

\* lines 360-362: r sets rebuild_layout_event.
L_refresh ==
    /\ ProcessAlive
    /\ listener_pc = "handle"
    /\ Lower(key) = "r"
    /\ rebuild_layout_event' = TRUE
    /\ listener_pc' = "release"
    /\ r_stage' = IF main_pc \in WaitPcs /\ ~is_paused /\ ~show_help_flag
                     /\ ~exit_event
                  THEN "pending"
                  ELSE IF r_stage = "pending" THEN "pending" ELSE "none"
    /\ UNCHANGED <<app_vars, args_interval, is_paused, show_help_flag, refresh_interval,
                   latest_stats, state_lock, stats_lock, exit_event, layout,
                   main_pc, main_locals, key, keys_read, cycle_fetch, cycle_latest,
                   p_prev>>

\* Variant of L_help: h flips show_help_flag and the event is not set.
L_help_without_signal ==
    /\ ProcessAlive
    /\ listener_pc = "handle"
    /\ Lower(key) = "h"
    /\ show_help_flag' = ~show_help_flag
    /\ listener_pc' = "release"
    /\ r_stage' = IF main_pc \in WaitPcs /\ show_help_flag /\ ~exit_event
                  THEN "k_pending" ELSE "none"
    /\ UNCHANGED <<app_vars, args_interval, is_paused, refresh_interval, latest_stats,
                   state_lock, stats_lock, exit_event, rebuild_layout_event, layout,
                   main_pc, main_locals, key, keys_read, cycle_fetch, cycle_latest,
                   p_prev>>

\* lines 363-364: h flips show_help_flag (the event is set by L_signal).
L_help ==
    /\ ProcessAlive
    /\ listener_pc = "handle"
    /\ Lower(key) = "h"
    /\ show_help_flag' = ~show_help_flag
    /\ listener_pc' = "signal"
    /\ r_stage' = IF main_pc \in WaitPcs /\ show_help_flag /\ ~exit_event
                  THEN "k_pending" ELSE "none"
    /\ UNCHANGED <<app_vars, args_interval, is_paused, refresh_interval, latest_stats,
                   state_lock, stats_lock, exit_event, rebuild_layout_event, layout,
                   main_pc, main_locals, key, keys_read, cycle_fetch, cycle_latest,
                   p_prev>>

\* Variant of L_pause: p pauses and never resumes.
L_pause_set_only ==
    /\ ProcessAlive
    /\ listener_pc = "handle"
    /\ Lower(key) = "p"
    /\ is_paused' = TRUE
    /\ listener_pc' = "signal"
    /\ r_stage' = "none"
    /\ p_prev' = IF is_paused THEN "paused" ELSE "running"
    /\ UNCHANGED <<app_vars, args_interval, show_help_flag, refresh_interval, latest_stats,
                   state_lock, stats_lock, exit_event, rebuild_layout_event, layout,
                   main_pc, main_locals, key, keys_read, cycle_fetch, cycle_latest>>

\* lines 366-367: p flips is_paused (the event is set by L_signal).
L_pause ==
    /\ ProcessAlive
    /\ listener_pc = "handle"
    /\ Lower(key) = "p"
    /\ is_paused' = ~is_paused
    /\ listener_pc' = "signal"
    /\ r_stage' = IF main_pc \in WaitPcs /\ is_paused /\ ~exit_event
                  THEN "k_pending" ELSE "none"
    /\ p_prev' = IF is_paused THEN "paused" ELSE "running"
    /\ UNCHANGED <<app_vars, args_interval, show_help_flag, refresh_interval, latest_stats,
                   state_lock, stats_lock, exit_event, rebuild_layout_event, layout,
                   main_pc, main_locals, key, keys_read, cycle_fetch, cycle_latest>>

\* lines 370-371: the interval after '-'.
IntervalAfterMinus(i) == IF i > MIN_INTERVAL THEN i - 1 ELSE i

\* Variant of IntervalAfterPlus: the upper limit is not tested.
IntervalAfterPlus_unclamped(i) == i + 1

\* lines 374-375: the interval after '+'.
IntervalAfterPlus(i) == IF i < MAX_INTERVAL THEN i + 1 ELSE i

\* lines 369-372: '-' (not lower-cased) decrements above the minimum; the
\* event is set only when the interval changed.
L_minus ==
    /\ ProcessAlive
    /\ listener_pc = "handle"
    /\ key = "-"
    /\ refresh_interval' = IntervalAfterMinus(refresh_interval)
    /\ listener_pc' = IF refresh_interval > MIN_INTERVAL THEN "signal" ELSE "release"
    /\ r_stage' = IF refresh_interval > MIN_INTERVAL THEN "none" ELSE r_stage
    /\ UNCHANGED <<app_vars, args_interval, is_paused, show_help_flag, latest_stats,
                   state_lock, stats_lock, exit_event, rebuild_layout_event, layout,
                   main_pc, main_locals, key, keys_read, cycle_fetch, cycle_latest,
                   p_prev>>

\* Variant of L_plus: the event is set whether or not the interval changed.
L_plus_always_signalling ==
    /\ ProcessAlive
    /\ listener_pc = "handle"
    /\ key = "+"
    /\ refresh_interval' = IntervalAfterPlus(refresh_interval)
    /\ listener_pc' = "signal"
    /\ r_stage' = IF refresh_interval < MAX_INTERVAL THEN "none" ELSE r_stage
    /\ UNCHANGED <<app_vars, args_interval, is_paused, show_help_flag, latest_stats,
                   state_lock, stats_lock, exit_event, rebuild_layout_event, layout,
                   main_pc, main_locals, key, keys_read, cycle_fetch, cycle_latest,
                   p_prev>>

\* lines 373-376: '+' increments below the maximum; the event is set only
\* when the interval changed.
L_plus ==
    /\ ProcessAlive
    /\ listener_pc = "handle"
    /\ key = "+"
    /\ refresh_interval' = IntervalAfterPlus(refresh_interval)
    /\ listener_pc' = IF refresh_interval < MAX_INTERVAL THEN "signal" ELSE "release"
    /\ r_stage' = IF refresh_interval < MAX_INTERVAL THEN "none" ELSE r_stage
    /\ UNCHANGED <<app_vars, args_interval, is_paused, show_help_flag, latest_stats,
                   state_lock, stats_lock, exit_event, rebuild_layout_event, layout,
                   main_pc, main_locals, key, keys_read, cycle_fetch, cycle_latest,
                   p_prev>>

\* lines 358-376: no branch matches any other key.
L_other ==
    /\ ProcessAlive
    /\ listener_pc = "handle"
    /\ Lower(key) \notin {"q", "r", "h", "p", "-", "+"}
    /\ listener_pc' = "release"
    /\ UNCHANGED <<app_vars, args_interval, shared_vars, layout, main_pc, main_locals, key,
                   keys_read, history_vars>>

\* lines 365, 368, 372, 376: rebuild_layout_event.set() after a state change.
L_signal ==
    /\ ProcessAlive
    /\ listener_pc = "signal"
    /\ rebuild_layout_event' = TRUE
    /\ listener_pc' = "release"
    /\ UNCHANGED <<app_vars, args_interval, is_paused, show_help_flag, refresh_interval,
                   latest_stats, state_lock, stats_lock, exit_event, layout,
                   main_pc, main_locals, key, keys_read, history_vars>>

\* end of the with block of line 357: the lock is released; the key has
\* been handled and is not read again.
L_release ==
    /\ ProcessAlive
    /\ listener_pc = "release"
    /\ state_lock' = "free"
    /\ key' = ""
    /\ listener_pc' = "loop_test"
    /\ UNCHANGED <<app_vars, args_interval, is_paused, show_help_flag, refresh_interval,
                   latest_stats, stats_lock, exit_event, rebuild_layout_event, layout,
                   main_pc, main_locals, keys_read, history_vars>>

\* The steps the listener takes while it holds state_lock (lines 358-376):
\* none of them blocks.
ListenerLockedStep ==
    \/ L_quit \/ L_refresh \/ L_help \/ L_pause \/ L_minus \/ L_plus \/ L_other
    \/ L_signal \/ L_release

ListenerStep == L_loop_test \/ L_readkey \/ L_lock \/ ListenerLockedStep

Next == MainStep \/ ListenerStep

Spec == Init /\ [][Next]_vars

\* The render loop keeps running (every fetch returns, time passes) and the
\* listener, once it holds the lock, runs to the end of its with block.
\* Started with an interval inside the limits: the interval only sets the length
\* of the wait.
FairInit == Init /\ args_interval = MIN_INTERVAL

FairSpec ==
    FairInit /\ [][Next]_vars /\ WF_vars(MainStep) /\ WF_vars(ListenerLockedStep)

\* The same program in runs one key longer, started with the interval at its
\* lower limit.
LongNext == MainStep \/ L_loop_test \/ L_readkey_long \/ L_lock \/ ListenerLockedStep

LongSpec == FairInit /\ [][LongNext]_vars


\* ------------------------------------------------- the /stats endpoint
\* (src/app.py)

\* A query string value is a sequence of characters. The values of ?limit=
\* tried: empty, not a number, zero, positive, negative, sign misplaced.
LimitStrings ==
    { << >>, <<"x">>, <<"-">>, <<"0">>, <<"2">>, <<"1", "2">>, <<"-", "1">>,
      <<"-", "2">>, <<"1", "x">>, <<"1", "-">> }

\* request.args: without or with a limit parameter.
NoArgs == << >>
RequestArgs == {NoArgs} \cup {[l \in {"limit"} |-> str] : str \in LimitStrings}

\* request.args.get(name, default)
ArgsGet(args, name, default) ==
    IF name \in DOMAIN args THEN args[name] ELSE default

Digits == {"0", "1", "2", "3", "4", "5", "6", "7", "8", "9"}

DigitValue(c) ==
    CASE c = "0" -> 0 [] c = "1" -> 1 [] c = "2" -> 2 [] c = "3" -> 3
      [] c = "4" -> 4 [] c = "5" -> 5 [] c = "6" -> 6 [] c = "7" -> 7
      [] c = "8" -> 8 [] c = "9" -> 9

AllDigits(str) == Len(str) > 0 /\ \A i \in 1..Len(str) : str[i] \in Digits

\* Whether int(str) returns (an optional minus sign, then digits) instead of
\* raising ValueError.
IntParses(str) ==
    IF Len(str) > 0 /\ str[1] = "-" THEN AllDigits(Tail(str)) ELSE AllDigits(str)

RECURSIVE DigitsValue(_, _)
DigitsValue(str, acc) ==
    IF str = << >> THEN acc
    ELSE DigitsValue(Tail(str), 10 * acc + DigitValue(Head(str)))

\* int(str) where it parses
IntValue(str) ==
    IF str[1] = "-" THEN 0 - DigitsValue(Tail(str), 0) ELSE DigitsValue(str, 0)

\* get_stats, lines 185-189
ParseLimit(args) ==
    LET limit_str == ArgsGet(args, "limit", <<"5">>) IN
    IF IntParses(limit_str) THEN IntValue(limit_str) ELSE 5

\* The figure each enumerated process is ranked by (cpu_percent,
\* memory_percent or memory_used), in the order of enumeration.
UsageValues == {1, 2}
ProcLists == UNION {[1..n -> UsageValues] : n \in 0..MaxProcs}

\* list.sort(key=..., reverse=True): insertion into a non-increasing list.
RECURSIVE InsertDesc(_, _)
InsertDesc(x, sorted) ==
    IF sorted = << >> THEN <<x>>
    ELSE IF x >= Head(sorted) THEN <<x>> \o sorted
    ELSE <<Head(sorted)>> \o InsertDesc(x, Tail(sorted))

RECURSIVE SortDesc(_)
SortDesc(list) ==
    IF list = << >> THEN << >> ELSE InsertDesc(Head(list), SortDesc(Tail(list)))

\* list[:stop] as Python slices: a negative stop counts from the end.
SliceTo(list, stop) ==
    LET n == Len(list)
        last == IF stop < 0 THEN (IF n + stop > 0 THEN n + stop ELSE 0)
                ELSE (IF stop < n THEN stop ELSE n)
    IN SubSeq(list, 1, last)

\* app.py lines 26-44, 46-65 and 67-111: sort in decreasing order, then slice.
get_top_processes_by_cpu(processes, lim) == SliceTo(SortDesc(processes), lim)
get_top_processes_by_memory(processes, lim) == SliceTo(SortDesc(processes), lim)
get_gpu_processes(gpu_processes, lim) == SliceTo(SortDesc(gpu_processes), lim)

dashboard_vars ==
    <<args_interval, shared_vars, layout, main_pc, main_locals, listener_pc, key,
      keys_read, history_vars>>

\* lines 185-189: limit_str = request.args.get("limit", "5"); int() or 5.
G_parse_limit ==
    /\ app_pc = "parse"
    /\ limit' = ParseLimit(request_args)
    /\ app_pc' = "gpu"
    /\ UNCHANGED <<request_args, has_gpu, enum_cpu, enum_memory, enum_gpu, top_cpu,
                   top_memory, top_gpu_processes, dashboard_vars>>

\* lines 204-232: top_gpu_processes stays [] without a GPU, else it is
\* get_gpu_processes(limit=limit) on what nvidia-smi lists.
G_gpu_processes ==
    /\ app_pc = "gpu"
    /\ \E listed \in ProcLists :
         /\ enum_gpu' = IF has_gpu THEN listed ELSE << >>
         /\ top_gpu_processes' = IF has_gpu THEN get_gpu_processes(listed, limit)
                                 ELSE << >>
    /\ app_pc' = "cpu"
    /\ UNCHANGED <<request_args, has_gpu, limit, enum_cpu, enum_memory, top_cpu,
                   top_memory, dashboard_vars>>

\* line 265: top_cpu = get_top_processes_by_cpu(limit=limit)
G_top_cpu ==
    /\ app_pc = "cpu"
    /\ \E listed \in ProcLists :
         /\ enum_cpu' = listed
         /\ top_cpu' = get_top_processes_by_cpu(listed, limit)
    /\ app_pc' = "memory"
    /\ UNCHANGED <<request_args, has_gpu, limit, enum_memory, enum_gpu, top_memory,
                   top_gpu_processes, dashboard_vars>>

\* line 266: top_memory = get_top_processes_by_memory(limit=limit)
G_top_memory ==
    /\ app_pc = "memory"
    /\ \E listed \in ProcLists :
         /\ enum_memory' = listed
         /\ top_memory' = get_top_processes_by_memory(listed, limit)
    /\ app_pc' = "respond"
    /\ UNCHANGED <<request_args, has_gpu, limit, enum_cpu, enum_gpu, top_cpu,
                   top_gpu_processes, dashboard_vars>>

\* lines 269-280: return jsonify(...)
G_respond ==
    /\ app_pc = "respond"
    /\ app_pc' = "responded"
    /\ UNCHANGED <<request_args, has_gpu, limit, enum_cpu, enum_memory, enum_gpu,
                   top_cpu, top_memory, top_gpu_processes, dashboard_vars>>

StatsNext == G_parse_limit \/ G_gpu_processes \/ G_top_cpu \/ G_top_memory \/ G_respond

\* A request arrives: any query string, with or without a GPU.
StatsInit ==
    /\ DashboardInit
    /\ args_interval = MIN_INTERVAL
    /\ request_args \in RequestArgs
    /\ has_gpu \in BOOLEAN
    /\ limit = 0
    /\ enum_cpu = << >> /\ enum_memory = << >> /\ enum_gpu = << >>
    /\ top_cpu = << >> /\ top_memory = << >> /\ top_gpu_processes = << >>
    /\ app_pc = "parse"

StatsSpec == StatsInit /\ [][StatsNext]_vars

TypeOK ==
    /\ is_paused \in BOOLEAN /\ show_help_flag \in BOOLEAN
    /\ exit_event \in BOOLEAN /\ rebuild_layout_event \in BOOLEAN
    /\ state_lock \in {"free", "main", "listener"}
    /\ stats_lock \in {"free", "main"}
    /\ latest_stats \in {None} \cup Payloads
    /\ keys_read \in 0..(MaxKeys + 1)
    /\ elapsed \in {"zero", "part", "full"}

\* ----------------------------------------------------------------- claims

InRange(i) == i \in MIN_INTERVAL..MAX_INTERVAL

\* The listener's step that applies the key it holds.
HandleStep == listener_pc = "handle" /\ listener_pc' # "handle"

\* C1: started from an interval within [1,60], the refresh interval stays
\* within [1,60] whatever keys are pressed and however they interleave with
\* the render loop; '+' adds exactly 1 and '-' subtracts exactly 1 whenever
\* the result stays in range, and no other step of either thread changes it.
C1_IntervalStaysInRange ==
    /\ [](InRange(args_interval) => InRange(refresh_interval))
    /\ [][InRange(args_interval) /\ main_pc # "start" =>
            /\ HandleStep /\ key = "+" /\ InRange(refresh_interval + 1)
                 => refresh_interval' = refresh_interval + 1
            /\ HandleStep /\ key = "-" /\ InRange(refresh_interval - 1)
                 => refresh_interval' = refresh_interval - 1
            /\ ~(HandleStep /\ key \in {"+", "-"})
                 => refresh_interval' = refresh_interval]_vars

\* C1 witness: started at 60, a '+' has been applied at the upper limit while
\* the render loop was in its wait phase.
C1_Witness ==
    /\ args_interval = MAX_INTERVAL
    /\ refresh_interval = MAX_INTERVAL
    /\ key = "+"
    /\ listener_pc = "release"
    /\ main_pc \in WaitPcs

\* C2: the refresh interval is within [1,60] in every reachable state, for
\* every --interval value the command line accepts.
C2_IntervalAlwaysInRange == InRange(refresh_interval)

\* C3: a cycle whose fetch failed leaves latest_stats as it was when the cycle
\* read the state, and no step ever clears a snapshot that is held.
C3_FailedFetchKeepsLatest ==
    /\ [](cycle_fetch = "failed" => latest_stats = cycle_latest)
    /\ [][latest_stats # None => latest_stats' # None]_vars

\* C3 witness: snapshot A is held, this cycle's fetch failed and the loop has
\* gone on to its wait.
C3_Witness ==
    /\ cycle_fetch = "failed"
    /\ latest_stats = "A"
    /\ main_pc \in WaitPcs

\* C4 (as stated): no step replaces latest_stats while is_paused is true.
C4_ReplacedOnlyWhileNotPaused ==
    [][latest_stats' # latest_stats => ~is_paused]_vars

\* C4 (amended): latest_stats is replaced only by the render loop's store,
\* in a cycle whose state read had help hidden and paused false; in a cycle
\* whose state read had paused true it is unchanged.
C4_ReplacedOnlyInUnpausedCycle ==
    [][latest_stats' # latest_stats =>
         main_pc = "store_write" /\ ~paused /\ ~help_flag]_vars

\* C4 witness: the snapshot has been replaced in a cycle whose state read had
\* paused false, and a 'p' pressed during that cycle has made is_paused true.
C4_Witness ==
    /\ main_pc = "render_begin"
    /\ render_site = "fetch"
    /\ latest_stats # cycle_latest
    /\ is_paused
    /\ ~paused

\* C5: once exit_event is set while the loop is in its wait phase, the loop
\* takes no further sleep after its next poll, goes from the wait to the loop
\* test and from there to its end, and neither fetches nor renders; nothing
\* in this depends on the interval.
C5_QuitEndsWaitAtNextPoll ==
    [][exit_event =>
         /\ exit_event'
         /\ main_pc = "wait_sleep" => main_pc' \in {"wait_sleep", "wait_test"}
         /\ main_pc = "wait_test" => main_pc' \in {"wait_test", "loop_test"}
         /\ main_pc = "loop_test" => main_pc' \in {"loop_test", "done"}
         /\ main_pc = "done" => main_pc' = "done"
         /\ main_pc \in WaitPcs \cup {"loop_test", "done"} =>
              /\ layout' = layout
              /\ latest_stats' = latest_stats
              /\ cycle_fetch' = cycle_fetch]_vars

\* C5 witness: the loop has ended out of a wait of interval 60 that neither
\* ran to its end nor was cut by a rebuild.
C5_Witness ==
    /\ main_pc = "done"
    /\ current_interval = MAX_INTERVAL
    /\ elapsed = "part"
    /\ ~rebuild_layout_event

C7_KeypressReflectedByNextPoll ==
    InRange(args_interval) /\ main_pc = "wait_sleep" =>
        \/ /\ paused = is_paused
           /\ help_flag = show_help_flag
           /\ current_interval = refresh_interval
        \/ rebuild_layout_event
        \/ exit_event
        \/ listener_pc = "signal"

\* C8: the render loop reaches a terminal state only through exit_event,
\* whatever the fetches return.
C8_OnlyExitTerminates == main_pc \in Terminal => exit_event

\* C9: an exception raised while rendering a fetched payload does not end the
\* render loop.
C9_RenderFailureCaught ==
    [][main_pc = "render_raised" => main_pc' \notin Terminal]_vars

\* C10: started from an interval within [1,60], when a snapshot was held at the start of a cycle with help hidden
\* whose fetch failed, the frame on display during that cycle's wait is the
\* dashboard built from that snapshot.
C10_FailedFetchKeepsFrame ==
    /\ InRange(args_interval)
    /\ cycle_fetch = "failed"
    /\ ~help_flag
    /\ Truthy(cycle_latest)
    /\ main_pc \in {"wait_start"} \cup WaitPcs
    => layout.view = "dash" /\ layout.data = latest_stats

\* A frame that shows nothing but the help panel, the empty layout or the
\* panels build_layout_content makes from the data, the interval and the
\* pause status: it carries no mark of an error.
ErrorFree(l) ==
    \/ l \in {EmptyLayout, HelpPanel}
    \/ l = Dashboard(l.data, l.interval, l.status)

\* C11: in the wait of a cycle whose fetch failed (help hidden), the frame on
\* display carries a visible error indicator, i.e. it is not one of the
\* frames the loop shows when nothing has failed.
C11_FailureShownInFrame ==
    cycle_fetch = "failed" /\ ~help_flag /\ main_pc \in WaitPcs
    => ~ErrorFree(layout)

\* C12: a 'p' or 'P' press that follows an earlier one, with no other 'p' in
\* between, puts is_paused back to the value it had before the earlier press,
\* whatever the render loop and the other keys did in between.
C12_TwoPausePressesRestore ==
    [][HandleStep /\ key \in {"p", "P"} /\ p_prev # "none" =>
         is_paused' = (p_prev = "paused")]_vars

\* C12 witness: two presses of p have been applied, with render-loop steps
\* around them, and is_paused is back to its first value.
C12_Witness ==
    /\ keys_read = 2
    /\ key \in {"p", "P"}
    /\ listener_pc = "release"
    /\ p_prev = "paused"
    /\ is_paused = FALSE
    /\ main_pc \in WaitPcs

\* A step of the listener thread (M_start, which starts the thread, is not one).
ListenerMoves == listener_pc # "not_started" /\ listener_pc' # listener_pc

MappedKeys == {"q", "Q", "r", "R", "h", "H", "p", "P", "-", "+"}

\* C13 (as stated): while the listener handles a key, q/Q changes nothing but
\* exit_event, r/R nothing but rebuild_layout_event, h/H nothing but
\* show_help_flag, p/P nothing but is_paused, '-' and '+' nothing but the
\* interval, and any other key nothing at all; latest_stats is never touched.
C13_KeysChangeOnlyTheirField ==
    [][ListenerMoves =>
         /\ latest_stats' = latest_stats
         /\ key \in {"q", "Q"} =>
              UNCHANGED <<is_paused, show_help_flag, refresh_interval,
                          rebuild_layout_event>>
         /\ key \in {"r", "R"} =>
              UNCHANGED <<is_paused, show_help_flag, refresh_interval, exit_event>>
         /\ key \in {"h", "H"} =>
              UNCHANGED <<is_paused, refresh_interval, exit_event,
                          rebuild_layout_event>>
         /\ key \in {"p", "P"} =>
              UNCHANGED <<show_help_flag, refresh_interval, exit_event,
                          rebuild_layout_event>>
         /\ key \in {"-", "+"} =>
              UNCHANGED <<is_paused, show_help_flag, exit_event,
                          rebuild_layout_event>>
         /\ key \notin MappedKeys =>
              UNCHANGED <<is_paused, show_help_flag, refresh_interval, exit_event,
                          rebuild_layout_event>>]_vars

\* C13 (amended): as above, except that h/H, p/P, '-' and '+' may also raise
\* (never clear) rebuild_layout_event; and the letters act in either case:
\* q/Q sets exit_event, r/R sets rebuild_layout_event, h/H flips
\* show_help_flag and p/P flips is_paused.
C13_KeysChangeTheirFieldAndSignal ==
    [][ListenerMoves =>
         /\ latest_stats' = latest_stats
         /\ rebuild_layout_event => rebuild_layout_event'
         /\ key \in {"q", "Q"} =>
              /\ UNCHANGED <<is_paused, show_help_flag, refresh_interval,
                             rebuild_layout_event>>
              /\ HandleStep => exit_event'
         /\ key \in {"r", "R"} =>
              /\ UNCHANGED <<is_paused, show_help_flag, refresh_interval, exit_event>>
              /\ HandleStep => rebuild_layout_event'
         /\ key \in {"h", "H"} =>
              /\ UNCHANGED <<is_paused, refresh_interval, exit_event>>
              /\ HandleStep => show_help_flag' = ~show_help_flag
         /\ key \in {"p", "P"} =>
              /\ UNCHANGED <<show_help_flag, refresh_interval, exit_event>>
              /\ HandleStep => is_paused' = ~is_paused
         /\ key \in {"-", "+"} =>
              UNCHANGED <<is_paused, show_help_flag, exit_event>>
         /\ key \notin MappedKeys =>
              UNCHANGED <<is_paused, show_help_flag, refresh_interval, exit_event,
                          rebuild_layout_event>>]_vars

\* C13 witness: an upper-case H has been applied: help is shown and the
\* rebuild event is raised.
C13_Witness ==
    /\ key = "H"
    /\ listener_pc = "release"
    /\ show_help_flag
    /\ rebuild_layout_event

\* C14: when the render loop finishes the reads of lines 400-402, the three
\* values it holds are the values the three globals have together at that
\* moment, whatever the listener did before or is waiting to do.
C14_CycleReadIsConsistent ==
    [][main_pc = "read_help" /\ main_pc' = "dispatch" =>
         <<paused', help_flag', current_interval'>> =
         <<is_paused', show_help_flag', refresh_interval'>>]_vars

\* C14 witness: the loop has read its three values while the listener, holding
\* a second key that would change one of them, waits for the lock.
C14_Witness ==
    /\ main_pc = "dispatch"
    /\ listener_pc = "lock"
    /\ keys_read = 2
    /\ key \in {"p", "-"}
    /\ help_flag
    /\ <<paused, help_flag, current_interval>> =
       <<is_paused, show_help_flag, refresh_interval>>

\* C15: the render loop holds no lock while a fetch is in flight or while it
\* sleeps in the wait phase, the listener holds none while it blocks in
\* readkey, and so a listener waiting for the state lock during a fetch finds
\* it free.
C15_NoLockAcrossBlockingCall ==
    /\ main_pc \in {"fetching", "wait_sleep"} =>
         state_lock # "main" /\ stats_lock # "main"
    /\ listener_pc = "readkey" =>
         state_lock # "listener" /\ stats_lock # "listener"
    /\ main_pc = "fetching" /\ listener_pc = "lock" => state_lock = "free"

\* C15 witness: a pause key has been applied while the fetch is in flight.
C15_Witness ==
    /\ main_pc = "fetching"
    /\ listener_pc = "release"
    /\ key \in {"p", "P"}
    /\ is_paused
    /\ ~paused

\* The positions of the render loop inside the fetch branch and inside a
\* build_layout_content call.
FetchPcs == {"fetching", "store_lock", "store_write"}
RenderPcs == {"render_begin", "render_raised", "render_status", "render_finish"}
AfterBranchPcs == {"rebuild_test", "rebuild_render", "rebuild_clear", "wait_start"} \cup WaitPcs
\* From the end of the reads of lines 400-402 to the end of the wait: the
\* positions where paused and help_flag are the values of the running cycle.
CyclePcs == {"dispatch"} \cup FetchPcs \cup RenderPcs \cup AfterBranchPcs

\* C16: in a cycle that read help_flag true, paused or not, no fetch is issued,
\* latest_stats keeps the value it had when the cycle began, no dashboard is
\* built, and the branch puts the help panel in the layout and goes on to the
\* rebuild test and the wait.
C16_HelpCycleFetchesNothing ==
    /\ [](help_flag =>
            /\ cycle_fetch = "none"
            /\ latest_stats = cycle_latest
            /\ main_pc \notin FetchPcs \cup RenderPcs \cup {"crashed"})
    /\ [][help_flag /\ main_pc = "dispatch" /\ main_pc' # "dispatch" =>
            main_pc' = "rebuild_test" /\ layout' = HelpPanel]_vars

\* C16 witness: a cycle that read both help and pause true, with a snapshot in
\* store, has reached the wait showing the help panel.
C16_Witness ==
    /\ help_flag
    /\ paused
    /\ Truthy(latest_stats)
    /\ main_pc \in WaitPcs
    /\ layout = HelpPanel

\* C17: in a cycle that read paused true and help_flag false, no fetch is
\* issued, latest_stats keeps the value it had when the cycle began, and once
\* the branch is done the layout is the dashboard built from that snapshot
\* (if there is one).
C17_PausedCycleRerendersLatest ==
    paused /\ ~help_flag /\ main_pc \in CyclePcs =>
        /\ cycle_fetch = "none"
        /\ latest_stats = cycle_latest
        /\ main_pc \notin FetchPcs
        /\ main_pc \in AfterBranchPcs /\ Truthy(latest_stats) =>
             layout.view = "dash" /\ layout.data = latest_stats

\* C17 witness: a paused cycle has re-rendered the stored snapshot, the summary
\* showing the paused status, and waits.
C17_Witness ==
    /\ paused
    /\ ~help_flag
    /\ main_pc \in WaitPcs
    /\ latest_stats \in GoodPayloads
    /\ layout = Dashboard(latest_stats, current_interval, TRUE)

\* C18: when the branch of a cycle whose fetch returned a success status is
\* done, latest_stats is the fetched payload and the layout is the dashboard
\* built from it (started with an interval in range, so that the run does not
\* depend on C2).
C18_SuccessfulFetchStoredAndRendered ==
    /\ InRange(args_interval)
    /\ cycle_fetch = "ok"
    /\ main_pc = "rebuild_test"
    => /\ latest_stats = stats
       /\ layout.view = "dash"
       /\ layout.data = stats

\* C19: exit_event, once set, stays set; a loop test made with it set ends the
\* loop without entering a cycle; and once the loop has ended the render loop
\* does nothing more: no fetch, no change of the layout or of latest_stats.
C19_ExitIsTerminal ==
    /\ [][exit_event => exit_event']_vars
    /\ [][exit_event /\ main_pc = "loop_test" /\ main_pc' # "loop_test" =>
            main_pc' = "done"]_vars
    /\ [][(main_pc \in Terminal) =>
            UNCHANGED <<main_pc, layout, latest_stats, stats, cycle_fetch>>]_vars

\* C19 witness: the loop has ended on exit_event with a snapshot in store and a
\* dashboard on display, while the listener thread has not yet stopped.
C19_Witness ==
    /\ main_pc = "done"
    /\ exit_event
    /\ latest_stats \in GoodPayloads
    /\ layout.view = "dash"

\* C20: the wait is always entered with rebuild_layout_event clear; the event
\* is only ever raised by a step of the listener; and the wait ends before its
\* interval has elapsed only if one of the two events is set. So a wait that
\* is cut short by the rebuild event owes it to a key handled during that wait.
C20_RebuildConsumedOnce ==
    /\ [][main_pc # "wait_start" /\ main_pc' = "wait_start" =>
            ~rebuild_layout_event']_vars
    /\ [][~rebuild_layout_event /\ rebuild_layout_event' =>
            ListenerMoves /\ key \in MappedKeys]_vars
    /\ [][main_pc = "wait_test" /\ main_pc' = "loop_test" =>
            elapsed = "full" \/ exit_event \/ rebuild_layout_event]_vars

\* C20 witness: after a pause key the triggered cycle has rendered the paused
\* dashboard, the event is clear again and the wait has run its full interval.
C20_Witness ==
    /\ keys_read = 1
    /\ is_paused
    /\ paused
    /\ 0 < current_interval
    /\ main_pc = "wait_test"
    /\ elapsed = "full"
    /\ ~rebuild_layout_event
    /\ layout = Dashboard(latest_stats, current_interval, TRUE)

\* C21: no step of the listener starts a fetch, delivers a fetch result or
\* writes latest_stats; latest_stats changes only in the render loop's store
\* step; a fetch is in flight only while the render loop is inside fetch_stats,
\* and the render loop starts one only when none is in flight.
C21_RenderLoopAloneFetchesAndStores ==
    /\ [](cycle_fetch = "inflight" <=> main_pc = "fetching")
    /\ [][ListenerMoves =>
            UNCHANGED <<latest_stats, stats, cycle_fetch, main_pc>>]_vars
    /\ [][latest_stats' # latest_stats =>
            main_pc = "store_write" /\ listener_pc' = listener_pc]_vars
    /\ [][cycle_fetch # "inflight" /\ cycle_fetch' = "inflight" =>
            main_pc = "dispatch" /\ main_pc' = "fetching"]_vars

\* C21 witness: the listener has handled an 'r' while a fetch was in flight
\* and a snapshot was in store.
C21_Witness ==
    /\ main_pc = "fetching"
    /\ cycle_fetch = "inflight"
    /\ listener_pc = "release"
    /\ key \in {"r", "R"}
    /\ latest_stats \in GoodPayloads

\* The positions at which the render loop's next step reads latest_stats:
\* `if latest_stats:` of the paused branch and of the rebuild block, and the
\* argument of build_layout_content.
ReadsLatestStats ==
    \/ main_pc = "dispatch" /\ CycleBranch(help_flag, paused) = "paused"
    \/ main_pc = "rebuild_render" /\ ~help_flag
    \/ main_pc = "render_begin"

\* C22: wherever a thread is about to read or write is_paused, show_help_flag
\* or refresh_interval it holds state_lock, and wherever it is about to read
\* or write latest_stats it holds stats_lock (started with an interval in
\* range).
C22_FieldsAccessedUnderLock ==
    InRange(args_interval) =>
        /\ main_pc \in {"read_interval", "read_paused", "read_help", "render_finish"}
             => state_lock = "main"
        /\ listener_pc = "handle" => state_lock = "listener"
        /\ main_pc = "store_write" => stats_lock = "main"
        /\ ReadsLatestStats => stats_lock = "main"

\* C23: a build_layout_content call puts in the layout the dashboard of the
\* snapshot, the interval and the pause status that the cycle read at its
\* start, and changes none of is_paused, show_help_flag, refresh_interval
\* and latest_stats (started with an interval in range).
C23_FrameShowsCycleState ==
    [][InRange(args_interval) /\ main_pc = "render_finish"
         /\ main_pc' # "render_finish" =>
            /\ layout' = Dashboard(latest_stats, current_interval, paused)
            /\ UNCHANGED <<is_paused, show_help_flag, refresh_interval,
                           latest_stats>>]_vars

\* C24: under FairSpec, once exit_event is set the render loop eventually
\* ends, in whichever phase the event found it. (A render that raises ends it
\* too: C8.)
C24_ExitEventuallyStops == exit_event ~> main_pc \in Terminal

\* C24 witness: the loop has ended after an exit raised while a fetch was in
\* flight or about to start: the snapshot was replaced after the event.
C24_Witness ==
    /\ main_pc = "done"
    /\ exit_event
    /\ r_stage = "q_stored"
    /\ listener_pc = "stopped"

\* C25: a '-' handled at the minimum or a '+' handled at the maximum changes
\* none of the interval, is_paused, show_help_flag, latest_stats and the two
\* events, and the listener goes straight to the release of the lock, without
\* the step that sets the rebuild event.
C25_KeyAtLimitAbsorbed ==
    [][HandleStep /\ (\/ key = "-" /\ refresh_interval = MIN_INTERVAL
                      \/ key = "+" /\ refresh_interval = MAX_INTERVAL) =>
         /\ listener_pc' = "release"
         /\ UNCHANGED <<refresh_interval, is_paused, show_help_flag, latest_stats,
                        exit_event, rebuild_layout_event, main_pc, layout>>]_vars

\* C25 witness: a '-' has been handled at interval 1 in the middle of a wait,
\* and the wait goes on with the rebuild event clear.
C25_Witness ==
    /\ args_interval = MIN_INTERVAL
    /\ keys_read = 1
    /\ key = "-"
    /\ listener_pc = "release"
    /\ refresh_interval = MIN_INTERVAL
    /\ ~rebuild_layout_event
    /\ main_pc = "wait_sleep"
    /\ elapsed = "part"

\* What C26 says of every key, and of the wait a p or h press interrupts: a
\* handled key that changes is_paused, show_help_flag or refresh_interval is
\* followed, before the lock is released, by the step that sets the rebuild
\* event; and once that step is done the render loop's next poll ends the wait.
KeySignalsUnderLock ==
    /\ [](listener_pc = "signal" => state_lock = "listener")
    /\ [][HandleStep /\ <<is_paused', show_help_flag', refresh_interval'>> #
                        <<is_paused, show_help_flag, refresh_interval>> =>
            listener_pc' = "signal"]_vars
    /\ [][listener_pc = "signal" /\ listener_pc' # "signal" =>
            rebuild_layout_event' /\ state_lock' = "listener"]_vars
    /\ [](r_stage = "k_pending" /\ listener_pc # "signal" => rebuild_layout_event)
    /\ [][r_stage = "k_pending" /\ listener_pc # "signal" /\ main_pc = "wait_test"
            /\ main_pc' # "wait_test" => main_pc' = "loop_test"]_vars

\* C26 (as stated): KeySignalsUnderLock, and after a p that unpauses or an h
\* that hides help, handled while the loop waits and followed by no other
\* state-changing key, the cycle the loop runs next issues a fetch.
C26_UnpauseOrHideHelpRefetches ==
    /\ KeySignalsUnderLock
    /\ [][r_stage = "k_pending" /\ main_pc = "dispatch" /\ main_pc' # "dispatch" =>
            main_pc' = "fetching"]_vars

\* C26 (amended): KeySignalsUnderLock, and after such a press that leaves the
\* dashboard neither paused nor showing help, the cycle the loop runs next
\* issues a fetch.
C26_ResumingKeyRefetches ==
    /\ KeySignalsUnderLock
    /\ [][r_stage = "k_pending" /\ ~is_paused /\ ~show_help_flag
            /\ main_pc = "dispatch" /\ main_pc' # "dispatch" =>
            main_pc' = "fetching"]_vars

\* C26 witness: a press that resumed the dashboard has cut a wait short and
\* the fetch of the next cycle is in flight.
C26_Witness ==
    /\ r_stage = "k_fetched"
    /\ main_pc = "fetching"
    /\ elapsed = "part"
    /\ ~is_paused /\ ~show_help_flag

\* C27: r_stage keeps, from the moment exit_event is set, whether the render
\* loop has since started a fetch and whether it has since replaced
\* latest_stats; after a fetch started under the event no other fetch starts,
\* and after a replacement made under the event nothing starts or replaces.
C27_AtMostOneFetchAfterExit ==
    /\ [](exit_event =>
            \/ r_stage \in {"q_raised", "q_fetched", "q_stored"}
            \/ listener_pc = "handle")
    /\ [][exit_event /\ r_stage \in {"q_fetched", "q_stored"} =>
            ~(main_pc = "dispatch" /\ main_pc' = "fetching")]_vars
    /\ [][exit_event /\ r_stage = "q_stored" => latest_stats' = latest_stats]_vars
    /\ [][exit_event /\ r_stage = "q_stored" /\ main_pc = "loop_test" =>
            main_pc' \in {"loop_test", "done"}]_vars

\* C27 witness: the 'q' was handled after the loop test and before the state
\* read; the cycle then fetched and replaced the snapshot, and the loop ended.
C27_Witness ==
    /\ exit_event
    /\ r_stage = "q_stored"
    /\ cycle_fetch = "ok"
    /\ latest_stats = stats
    /\ ~paused /\ ~help_flag
    /\ keys_read = 1
    /\ main_pc = "done"

\* C28: once exit_event is set no further key is read, is_paused,
\* show_help_flag and refresh_interval do not change, the rebuild event is not
\* raised, and the listener, once out of its with block, stops.
C28_NoKeyAfterQuit ==
    /\ [][exit_event =>
            /\ UNCHANGED <<is_paused, show_help_flag, refresh_interval, keys_read>>
            /\ rebuild_layout_event' => rebuild_layout_event]_vars
    /\ [](exit_event => listener_pc \in {"release", "loop_test", "stopped"})
    /\ [][exit_event /\ listener_pc = "loop_test" =>
            listener_pc' \in {"loop_test", "stopped"}]_vars

\* C28 witness: the listener has stopped after a single 'q', with keys still
\* to come, while the render loop has not ended yet.
C28_Witness ==
    /\ exit_event
    /\ listener_pc = "stopped"
    /\ keys_read = 1
    /\ main_pc \notin Terminal

\* Waiting for a lock that another thread holds.
MainBlocked ==
    \/ main_pc \in {"lock_state", "render_status"} /\ state_lock # "free"
    \/ main_pc = "store_lock" /\ stats_lock # "free"

ListenerBlocked == listener_pc = "lock" /\ state_lock # "free"

\* C29: each lock is held exactly at the positions inside its with block,
\* which are a fixed number of steps of the holder away from the release; the
\* positions that request a lock hold none; and the two threads are never both
\* waiting for a lock.
C29_NoDeadlock ==
    /\ state_lock = "main" <=>
         main_pc \in {"read_interval", "read_paused", "read_help", "render_finish"}
    /\ stats_lock = "main" <=> main_pc = "store_write"
    /\ state_lock = "listener" <=> listener_pc \in {"handle", "signal", "release"}
    /\ stats_lock # "listener"
    /\ main_pc \in {"lock_state", "render_status", "store_lock"} =>
         state_lock # "main" /\ stats_lock # "main"
    /\ listener_pc = "lock" => state_lock # "listener"
    /\ ~(MainBlocked /\ ListenerBlocked)

\* C29 witness: the listener waits for state_lock while build_summary holds it.
C29_Witness ==
    /\ ListenerBlocked
    /\ state_lock = "main"
    /\ main_pc = "render_finish"

\* How many entries of list equal v.
Count(list, v) == Cardinality({i \in 1..Len(list) : list[i] = v})

NonIncreasing(list) ==
    \A i \in 1..Len(list) : \A j \in i..Len(list) : list[i] >= list[j]

\* top is made of entries of enumerated, and whatever was left out ranks no
\* higher than anything kept.
HighestRanked(top, enumerated) ==
    \A v \in UsageValues :
        /\ Count(top, v) <= Count(enumerated, v)
        /\ Count(top, v) < Count(enumerated, v) =>
             \A i \in 1..Len(top) : top[i] >= v

\* A list of at most lim entries (none when lim is negative), the
\* highest-ranked of the enumeration, in non-increasing order.
TopWithin(top, enumerated, lim) ==
    /\ Len(top) <= (IF lim < 0 THEN 0 ELSE lim)
    /\ NonIncreasing(top)
    /\ HighestRanked(top, enumerated)

\* C30: in the response, a limit that does not parse as an integer has been
\* replaced by 5, and top_cpu, top_memory and top_gpu_processes each hold at
\* most limit entries, the highest-ranked of their enumeration, in
\* non-increasing order.
C30_TopListsWithinLimit ==
    app_pc = "responded" =>
        /\ ~IntParses(ArgsGet(request_args, "limit", <<"5">>)) => limit = 5
        /\ TopWithin(top_cpu, enum_cpu, limit)
        /\ TopWithin(top_memory, enum_memory, limit)
        /\ TopWithin(top_gpu_processes, enum_gpu, limit)

====
